---- MODULE Spec2Model ----
(***************************************************************************)
(* Model of binaryninjax/__init__.py: the init-callback registry driven by *)
(* the application event filter, the on_main_thread decorator, and the     *)
(* attribute dispatch / lazy symbol resolution of the object proxies.      *)
(***************************************************************************)
EXTENDS Integers, Sequences, FiniteSets, TLC

(* ---------------------------------------------------------------------- *)
(* Bounds                                                                 *)
(* ---------------------------------------------------------------------- *)
NumAddrs == 1
NumFns == 2
MaxCallbacks == 2
MaxShows == 2

Addrs == 1..NumAddrs
Fns == 1..NumFns

(* ---------------------------------------------------------------------- *)
(* Part 1: MainWindow / ViewFrame init callbacks and the event filter     *)
(* ---------------------------------------------------------------------- *)

\* A watched widget is known to the sets by its wrapper object; a wrapper that a
\* set still holds stands for whatever native widget lives at its address, so the
\* sets are modelled as sets of addresses and a new widget may take the address
\* of a destroyed one.

\* the classes the event filter iterates over, in the order of the for loop
ClsLoop == <<"MainWindow", "ViewFrame">>
Cls == {ClsLoop[i] : i \in 1..Len(ClsLoop)}
\* meta-objects a watched widget can have; "QWidget" stands for any other class
Kinds == Cls \cup {"QWidget"}
\* the two set objects created by the class bodies on first load
SetIds == {"MainWindowSet", "ViewFrameSet"}
Events == {"Show", "Other"}

VARIABLES
    init_callbacks,   \* cls._init_callbacks: list of registered functions
    init_set_ref,     \* cls._init_set: which set object the attribute names
    init_set_obj,     \* contents of each set object (wrappers, one per address)
    widget,           \* the live native widget at each address, or "none"
    connected,        \* whether a cleanup closure is connected to destroyed
    shows,            \* Show events the live widget at an address has received
    calls,            \* how often each function was called for the live widget
    wrapper,          \* class of the wrapper the callbacks were last given
    regAtFirstShow,   \* functions registered when the widget was first shown
    bornAfter,        \* widget opened after the last add/remove on its class
    lastRemoved,      \* {fn} when the last add/remove on cls was remove(fn)
    logged            \* tracebacks logged by the last eventFilter call

cbVars == <<init_callbacks, init_set_ref, init_set_obj, widget, connected, shows,
            calls, wrapper, regAtFirstShow, bornAfter, lastRemoved, logged>>

VARIABLES
    readthedocs,   \* os.getenv('READTHEDOCS') when on_main_thread was applied
    pc,            \* where each thread is in its call of the decorated function
    cell,          \* cell[0] of the list a call of wrapper allocates
    queue,         \* closures handed to the main thread, in order
    mainBusy,      \* the thread whose closure the main thread is running, if any
    done,          \* execute_on_main_thread_and_wait has finished for the thread
    runs,          \* times func was started for the thread's current call
    ranOn,         \* threads func ran on for the current call
    funcRet,       \* outcome of func for the current call, None while unfinished
    ret            \* what the call gave its caller: <<"return", v>> or <<"raise", e>>

thVars == <<readthedocs, pc, cell, queue, mainBusy, done, runs, ranOn, funcRet, ret>>

VARIABLES
    resolvable,     \* the symbols the host binary defines
    pkind,          \* class of each proxy object: "Q", "C", or "none" before creation
    q_methods,      \* _QObjectProxy._q_methods: meta-object -> method names
    q_properties,   \* _QObjectProxy._q_properties: meta-object -> property names
    inst,           \* instance dict of each proxy: the proxies setattr has stored
    c_funcptrs,     \* _CObjectProxy._c_funcptrs: the class-level address cache
    sname,          \* _func_name of each _CStaticMethodProxy
    sfunc,          \* _func of each _CStaticMethodProxy that has one
    cfp_resolves,   \* times _CObjectProxy.__getattr__ got a symbol's address from
                    \* resolve_symbol, per symbol
    st_resolves,    \* times each _CStaticMethodProxy got its address from resolve_symbol
    res             \* what the last attribute lookup or call did

pxVars == <<resolvable, pkind, q_methods, q_properties, inst, c_funcptrs, sname,
            sfunc, cfp_resolves, st_resolves, res>>

vars == <<cbVars, thVars, pxVars>>

Count(list, fn) == Cardinality({i \in 1..Len(list) : list[i] = fn})
Range(list) == {list[i] : i \in 1..Len(list)}

\* list.remove(x): drops the first occurrence
RECURSIVE ListRemove(_, _)
ListRemove(list, fn) ==
    IF list = <<>> THEN <<>>
    ELSE IF Head(list) = fn THEN Tail(list)
    ELSE <<Head(list)>> \o ListRemove(Tail(list), fn)

\* the class bodies on first load: the NameError branch
ClassBodyFirstLoad ==
    /\ init_callbacks = [c \in Cls |-> <<>>]
    /\ init_set_ref = [c \in Cls |-> IF c = "MainWindow" THEN "MainWindowSet"
                                                        ELSE "ViewFrameSet"]
    /\ init_set_obj = [s \in SetIds |-> {}]

InitCallbacks ==
    /\ ClassBodyFirstLoad
    /\ widget = [a \in Addrs |-> "none"]
    /\ connected = [a \in Addrs |-> FALSE]
    /\ shows = [a \in Addrs |-> 0]
    /\ calls = [a \in Addrs |-> [f \in Fns |-> 0]]
    /\ wrapper = [a \in Addrs |-> "none"]
    /\ regAtFirstShow = [a \in Addrs |-> {}]
    /\ bornAfter = [a \in Addrs |-> FALSE]
    /\ lastRemoved = [c \in Cls |-> {}]
    /\ logged = 0

\* cls.addInitCallback(fn)
addInitCallback(cls, fn) ==
    /\ Len(init_callbacks[cls]) < MaxCallbacks
    /\ init_callbacks' = [init_callbacks EXCEPT ![cls] = Append(@, fn)]
    /\ lastRemoved' = [lastRemoved EXCEPT ![cls] = {}]
    /\ bornAfter' = [a \in Addrs |-> IF widget[a] = cls THEN FALSE ELSE bornAfter[a]]
    /\ UNCHANGED <<init_set_ref, init_set_obj, widget, connected, shows, calls,
                   wrapper, regAtFirstShow, logged>>
    /\ UNCHANGED <<thVars, pxVars>>

\* cls.removeInitCallback(fn); list.remove raises ValueError when fn is absent
removeInitCallback(cls, fn) ==
    /\ init_callbacks' = [init_callbacks EXCEPT ![cls] = ListRemove(@, fn)]
    /\ lastRemoved' = [lastRemoved EXCEPT ![cls] = {fn}]
    /\ bornAfter' = [a \in Addrs |-> IF widget[a] = cls THEN FALSE ELSE bornAfter[a]]
    /\ UNCHANGED <<init_set_ref, init_set_obj, widget, connected, shows, calls,
                   wrapper, regAtFirstShow, logged>>
    /\ UNCHANGED <<thVars, pxVars>>

\* the class whose _init_set the cleanup closure reads: the closure captures the
\* loop variable, which holds the last element of the list once the loop is over
CleanupCls(cls) == ClsLoop[Len(ClsLoop)]

\* callbacks that get invoked: each one inside try/except, so all of them
Invoked(list, raising) == list

\* one iteration of "for cls in [MainWindow, ViewFrame]" for a Show event
FilterIter(cls, st, a, raising) ==
    IF widget[a] = cls /\ a \notin st.sets[init_set_ref[cls]]
    THEN LET inv == Invoked(init_callbacks[cls], raising)
         IN [sets |-> [st.sets EXCEPT ![init_set_ref[cls]] = @ \cup {a}],
             conn |-> TRUE,
             calls |-> [f \in Fns |-> st.calls[f] + Count(inv, f)],
             wrap |-> IF inv = <<>> THEN st.wrap ELSE cls,
             logged |-> st.logged
                        + Cardinality({i \in 1..Len(inv) : inv[i] \in raising})]
    ELSE st

\* _ApplicationEventFilter.eventFilter(watched, event), watched living at address a;
\* raising is the set of callbacks that throw
eventFilter(a, ev, raising) ==
    /\ widget[a] # "none"
    /\ ev = "Show" => shows[a] < MaxShows
    /\ LET s0 == [sets |-> init_set_obj, conn |-> connected[a], calls |-> calls[a],
                  wrap |-> wrapper[a], logged |-> 0]
           s1 == FilterIter(ClsLoop[1], s0, a, raising)
           s2 == FilterIter(ClsLoop[2], s1, a, raising)
           out == IF ev = "Show" THEN s2 ELSE s0
       IN /\ init_set_obj' = out.sets
          /\ connected' = [connected EXCEPT ![a] = out.conn]
          /\ calls' = [calls EXCEPT ![a] = out.calls]
          /\ wrapper' = [wrapper EXCEPT ![a] = out.wrap]
          /\ logged' = out.logged
    /\ shows' = [shows EXCEPT ![a] = IF ev = "Show" THEN @ + 1 ELSE @]
    /\ regAtFirstShow' = [regAtFirstShow EXCEPT ![a] =
            IF ev = "Show" /\ shows[a] = 0 /\ widget[a] \in Cls
            THEN Range(init_callbacks[widget[a]]) ELSE @]
    /\ UNCHANGED <<init_callbacks, init_set_ref, widget, bornAfter, lastRemoved>>
    /\ UNCHANGED <<thVars, pxVars>>

\* the host application creates a widget of some class at a free address
Open(a, k) ==
    /\ widget[a] = "none"
    /\ widget' = [widget EXCEPT ![a] = k]
    /\ bornAfter' = [bornAfter EXCEPT ![a] = TRUE]
    /\ UNCHANGED <<init_callbacks, init_set_ref, init_set_obj, connected, shows,
                   calls, wrapper, regAtFirstShow, lastRemoved, logged>>
    /\ UNCHANGED <<thVars, pxVars>>

\* the widget is destroyed: destroyed fires and runs the connected cleanup closures
Destroyed(a) ==
    /\ widget[a] # "none"
    /\ widget' = [widget EXCEPT ![a] = "none"]
    /\ connected' = [connected EXCEPT ![a] = FALSE]
    /\ init_set_obj' =
         IF connected[a]
         THEN [init_set_obj EXCEPT ![init_set_ref[CleanupCls(widget[a])]] = @ \ {a}]
         ELSE init_set_obj
    /\ shows' = [shows EXCEPT ![a] = 0]
    /\ calls' = [calls EXCEPT ![a] = [f \in Fns |-> 0]]
    /\ wrapper' = [wrapper EXCEPT ![a] = "none"]
    /\ regAtFirstShow' = [regAtFirstShow EXCEPT ![a] = {}]
    /\ bornAfter' = [bornAfter EXCEPT ![a] = FALSE]
    /\ UNCHANGED <<init_callbacks, init_set_ref, lastRemoved, logged>>
    /\ UNCHANGED <<thVars, pxVars>>

\* the module is reloaded: the class bodies run again with the old classes in scope
ClassBodyReload ==
    /\ init_callbacks' = init_callbacks
    /\ init_set_ref' = [c \in Cls |->
            IF c = "MainWindow" THEN init_set_ref["ViewFrame"]
                                ELSE init_set_ref["ViewFrame"]]

Reload ==
    /\ ClassBodyReload
    /\ UNCHANGED <<init_set_obj, widget, connected, shows, calls, wrapper,
                   regAtFirstShow, bornAfter, lastRemoved, logged>>
    /\ UNCHANGED <<thVars, pxVars>>

NextCallbacks ==
    \/ \E c \in Cls, f \in Fns : addInitCallback(c, f)
    \/ \E c \in Cls, f \in Fns : removeInitCallback(c, f)
    \/ \E a \in Addrs, ev \in Events, r \in SUBSET Fns : eventFilter(a, ev, r)
    \/ \E a \in Addrs, k \in Kinds : Open(a, k)
    \/ \E a \in Addrs : Destroyed(a)
    \/ Reload


(* ---------------------------------------------------------------------- *)
(* Part 2: on_main_thread                                                 *)
(* ---------------------------------------------------------------------- *)
NumWorkers == 2
NumVals == 2

MainThread == 0
Workers == 1..NumWorkers
Threads == {MainThread} \cup Workers
Vals == 1..NumVals
None == <<>>
\* what a run of func ends with: (True, value) or (False, exception)
Outcomes == {<<TRUE, v>> : v \in Vals} \cup {<<FALSE, "Exception">>}

InitThread ==
    /\ readthedocs \in BOOLEAN
    /\ pc = [t \in Threads |-> "idle"]
    /\ cell = [t \in Threads |-> None]
    /\ queue = <<>>
    /\ mainBusy = {}
    /\ done = [t \in Threads |-> FALSE]
    /\ runs = [t \in Threads |-> 0]
    /\ ranOn = [t \in Threads |-> {}]
    /\ funcRet = [t \in Threads |-> None]
    /\ ret = [t \in Threads |-> None]

\* a single list shared by every call, as if allocated in on_main_thread itself
CellOf_shared(t) == MainThread

\* the list "cell" is allocated inside wrapper: one per call, so one per caller
CellOf(t) == t

\* bn.mainthread.execute_on_main_thread_and_wait(exn_wrapper): hands the closure
\* to the main thread; a caller that is the main thread runs it next
Enqueue(q, t) == IF t = MainThread THEN <<t>> \o q ELSE Append(q, t)

\* a thread calls the decorated function
Call(t) ==
    /\ pc[t] \in {"idle", "returned"}
    /\ t = MainThread => mainBusy = {}
    /\ funcRet' = [funcRet EXCEPT ![t] = None]
    /\ ret' = [ret EXCEPT ![t] = None]
    /\ done' = [done EXCEPT ![t] = FALSE]
    /\ IF readthedocs
       THEN \* on_main_thread returned func itself: the call is func's body
            /\ pc' = [pc EXCEPT ![t] = "in_func"]
            /\ runs' = [runs EXCEPT ![t] = 1]
            /\ ranOn' = [ranOn EXCEPT ![t] = {t}]
            /\ UNCHANGED <<cell, queue>>
       ELSE /\ pc' = [pc EXCEPT ![t] = "waiting"]
            /\ cell' = [cell EXCEPT ![CellOf(t)] = None]
            /\ queue' = Enqueue(queue, t)
            /\ runs' = [runs EXCEPT ![t] = 0]
            /\ ranOn' = [ranOn EXCEPT ![t] = {}]
    /\ UNCHANGED <<readthedocs, mainBusy>>
    /\ UNCHANGED <<cbVars, pxVars>>

\* the main thread takes the next closure and enters exn_wrapper: func starts
ExnWrapperStart(t) ==
    /\ mainBusy = {}
    /\ queue # <<>> /\ Head(queue) = t
    /\ queue' = Tail(queue)
    /\ mainBusy' = {t}
    /\ runs' = [runs EXCEPT ![t] = @ + 1]
    /\ ranOn' = [ranOn EXCEPT ![t] = @ \cup {MainThread}]
    /\ UNCHANGED <<readthedocs, pc, cell, done, funcRet, ret>>
    /\ UNCHANGED <<cbVars, pxVars>>

\* func ends inside exn_wrapper: its outcome goes into the cell, the waiter is released
ExnWrapperFinish(t, outcome) ==
    /\ mainBusy = {t}
    /\ cell' = [cell EXCEPT ![CellOf(t)] = outcome]
    /\ funcRet' = [funcRet EXCEPT ![t] = outcome]
    /\ done' = [done EXCEPT ![t] = TRUE]
    /\ mainBusy' = {}
    /\ UNCHANGED <<readthedocs, pc, queue, runs, ranOn, ret>>
    /\ UNCHANGED <<cbVars, pxVars>>

\* what wrapper does with the cell once the wait is over
Unpack(c) ==
    IF c = None THEN <<"raise", "TypeError">>
    ELSE IF c[1] THEN <<"return", c[2]>>
    ELSE <<"raise", c[2]>>

\* execute_on_main_thread_and_wait returns and wrapper unpacks cell[0]
WrapperReturn(t) ==
    /\ pc[t] = "waiting" /\ done[t]
    /\ ret' = [ret EXCEPT ![t] = Unpack(cell[CellOf(t)])]
    /\ pc' = [pc EXCEPT ![t] = "returned"]
    /\ UNCHANGED <<readthedocs, cell, queue, mainBusy, done, runs, ranOn, funcRet>>
    /\ UNCHANGED <<cbVars, pxVars>>

\* READTHEDOCS set: the undecorated func ends on the calling thread
FuncReturn(t, outcome) ==
    /\ pc[t] = "in_func"
    /\ funcRet' = [funcRet EXCEPT ![t] = outcome]
    /\ ret' = [ret EXCEPT ![t] = Unpack(outcome)]
    /\ pc' = [pc EXCEPT ![t] = "returned"]
    /\ UNCHANGED <<readthedocs, cell, queue, mainBusy, done, runs, ranOn>>
    /\ UNCHANGED <<cbVars, pxVars>>

NextThread ==
    \/ \E t \in Threads : Call(t)
    \/ \E t \in Threads : ExnWrapperStart(t)
    \/ \E t \in Threads, o \in Outcomes : ExnWrapperFinish(t, o)
    \/ \E t \in Threads : WrapperReturn(t)
    \/ \E t \in Threads, o \in Outcomes : FuncReturn(t, o)



(* ---------------------------------------------------------------------- *)
(* Part 3: object proxies, attribute dispatch and symbol resolution       *)
(* ---------------------------------------------------------------------- *)
NumProxies == 2
NumStatics == 1

Proxies == 1..NumProxies
Statics == 1..NumStatics

\* One proxied class.  Its attribute names, one for each way a name can relate
\* to the meta-object's methods, the c_api table and the wrapped Qt object.  The
\* proxy's own attributes (_c_ptr, _q_object, _methods, ...) never reach
\* __getattr__ and no c_api key of the file coincides with one, so they are not
\* among the names.
AttrNames == {"slot", "both", "native", "qattr", "missing"}
\* the names the meta-object enumerates (method(n).name(), n < methodCount())
MetaMethodNames == {"slot", "both"}
MetaPropertyNames == {"prop"}
\* the c_api table: attribute name -> mangled symbol name
CApi == [both |-> "sym_both", native |-> "sym_native"]
CApiKeys == DOMAIN CApi
\* attributes the wrapped PyQt object has itself
QObjectAttrs == {"qattr"}
Syms == {CApi[k] : k \in CApiKeys}
\* the meta-object of the proxied class, and that of any other class
ThisMeta == "meta"
MetaObjects == {ThisMeta, "other_meta"}

EmptyDict == [x \in {} |-> {}]
\* d[k] = v
Store(d, k, v) == (k :> v) @@ d
AddrOf(name) == <<"addr", name>>
\* sip.unwrapinstance(q_object) / the c_ptr handed to the proxy
PtrOf(p) == p

\* resolve_symbol(name): the address, or None for a symbol the binary lacks
resolve_symbol(name) == IF name \in resolvable THEN AddrOf(name) ELSE None

NoRes == [op |-> "none", who |-> {}, attr |-> "", kind |-> "", this |-> {},
          addr |-> None, exc |-> "", sym |-> "", resolved |-> {}, native |-> None,
          retry |-> FALSE]

\* the operation repeats one that has just failed for want of the same symbol
Retry(op, who, sym) ==
    res.exc = "AttributeError: symbol" /\ res.op = op /\ res.who = who /\ res.sym = sym

InitProxy ==
    /\ resolvable \in SUBSET Syms
    /\ pkind = [p \in Proxies |-> "none"]
    /\ q_methods = EmptyDict
    /\ q_properties = EmptyDict
    /\ inst = [p \in Proxies |-> EmptyDict]
    /\ c_funcptrs = EmptyDict
    /\ sname \in [Statics -> Syms]
    /\ sfunc = EmptyDict
    /\ cfp_resolves = [n \in Syms |-> 0]
    /\ st_resolves = [s \in Statics |-> 0]
    /\ res = NoRes

\* _CStaticMethodProxy.__call__: "if self._func is None"
StaticNeedsResolve(s) == s \notin DOMAIN sfunc

\* _CStaticMethodProxy.__call__(*args)
StaticCall(s) ==
    /\ LET name == sname[s]
           need == StaticNeedsResolve(s)
           func_addr == resolve_symbol(name)
           failed == need /\ func_addr = None
       IN /\ st_resolves' = [st_resolves EXCEPT ![s] =
                                IF need /\ ~failed THEN @ + 1 ELSE @]
          /\ sfunc' = IF need /\ ~failed THEN Store(sfunc, s, func_addr) ELSE sfunc
          /\ res' = [op |-> "static", who |-> {s}, attr |-> "", kind |-> "",
                     this |-> {}, addr |-> None,
                     exc |-> IF failed THEN "AttributeError: symbol" ELSE "",
                     sym |-> name,
                     resolved |-> IF need THEN {name} ELSE {},
                     native |-> IF failed THEN None
                                ELSE IF need THEN func_addr ELSE sfunc[s],
                     retry |-> Retry("static", {s}, name)]
    /\ UNCHANGED <<resolvable, pkind, q_methods, q_properties, inst, c_funcptrs,
                   sname, cfp_resolves>>
    /\ UNCHANGED <<cbVars, thVars>>

\* _CObjectProxy(c_ptr, c_api)
NewCObjectProxy(p) ==
    /\ pkind[p] = "none"
    /\ pkind' = [pkind EXCEPT ![p] = "C"]
    /\ UNCHANGED <<resolvable, q_methods, q_properties, inst, c_funcptrs, sname,
                   sfunc, cfp_resolves, st_resolves, res>>
    /\ UNCHANGED <<cbVars, thVars>>

\* _QObjectProxy(q_meta_object, q_object, c_api) for an object whose metaObject()
\* is objMeta; a mismatch raises TypeError and no proxy comes into being
NewQObjectProxy(p, objMeta) ==
    /\ pkind[p] = "none"
    /\ ThisMeta = objMeta
    /\ pkind' = [pkind EXCEPT ![p] = "Q"]
    /\ q_methods' = IF ThisMeta \notin DOMAIN q_methods
                    THEN Store(q_methods, ThisMeta, MetaMethodNames) ELSE q_methods
    /\ q_properties' = IF ThisMeta \notin DOMAIN q_properties
                       THEN Store(q_properties, ThisMeta, MetaPropertyNames)
                       ELSE q_properties
    /\ UNCHANGED <<resolvable, inst, c_funcptrs, sname, sfunc, cfp_resolves,
                   st_resolves, res>>
    /\ UNCHANGED <<cbVars, thVars>>

\* a cache created per proxy object instead of per class
FuncPtrsKey_per_instance(p, name) == <<p, name>>

\* the key under which _c_funcptrs holds a symbol: the dict is a class attribute,
\* shared by every proxy object, and is keyed by the symbol name alone
FuncPtrsKey(p, name) == name

\* outcome of a lookup: the object it yields or the exception, and its effects
Yield(kind, this, addr, sym, resolved, ptrs, cache) ==
    [kind |-> kind, this |-> this, addr |-> addr, exc |-> "", sym |-> sym,
     resolved |-> resolved, ptrs |-> ptrs, cache |-> cache]
Raise(exc, sym, resolved) ==
    [kind |-> "", this |-> {}, addr |-> None, exc |-> exc, sym |-> sym,
     resolved |-> resolved, ptrs |-> c_funcptrs, cache |-> FALSE]

\* _CObjectProxy.__getattr__(self, attr)
CGetattr(p, attr) ==
    IF attr \in CApiKeys
    THEN LET func_name == CApi[attr]
             key == FuncPtrsKey(p, func_name)
         IN IF key \notin DOMAIN c_funcptrs
            THEN IF resolve_symbol(func_name) = None
                 THEN Raise("AttributeError: symbol", func_name, {func_name})
                 ELSE Yield("CMethodProxy", {PtrOf(p)}, resolve_symbol(func_name),
                            func_name, {func_name},
                            Store(c_funcptrs, key, resolve_symbol(func_name)), TRUE)
            ELSE Yield("CMethodProxy", {PtrOf(p)}, c_funcptrs[key], func_name, {},
                       c_funcptrs, TRUE)
    ELSE Raise("AttributeError: undefined method", "", {})

\* the c_api test placed before the meta-method test
QGetattrBranch_c_api_first(attr) ==
    IF attr \in CApiKeys THEN "c_api"
    ELSE IF attr \in q_methods[ThisMeta] THEN "meta"
    ELSE "q_object"

\* which branch of _QObjectProxy.__getattr__ a name takes
QGetattrBranch(attr) ==
    IF attr \in q_methods[ThisMeta] THEN "meta"
    ELSE IF attr \in CApiKeys THEN "c_api"
    ELSE "q_object"

\* _QObjectProxy.__getattr__(self, attr)
QGetattr(p, attr) ==
    CASE QGetattrBranch(attr) = "meta" ->
            Yield("QMethodProxy", {PtrOf(p)}, None, "", {}, c_funcptrs, TRUE)
      [] QGetattrBranch(attr) = "c_api" -> CGetattr(p, attr)
      [] OTHER ->
            IF attr \in QObjectAttrs
            THEN Yield("QtAttribute", {PtrOf(p)}, None, "", {}, c_funcptrs, FALSE)
            ELSE Raise("AttributeError: q_object", "", {})

\* p.attr: the instance dict is read first, and __getattr__ runs only for a name
\* it does not hold
GetAttr(p, attr) ==
    /\ pkind[p] # "none"
    /\ LET r == IF attr \in DOMAIN inst[p]
                THEN Yield(inst[p][attr].kind, inst[p][attr].this, inst[p][attr].addr,
                           inst[p][attr].sym, {}, c_funcptrs, FALSE)
                ELSE IF pkind[p] = "Q" THEN QGetattr(p, attr) ELSE CGetattr(p, attr)
       IN /\ cfp_resolves' = [n \in Syms |->
                                IF n \in r.resolved /\ resolve_symbol(n) # None
                                THEN cfp_resolves[n] + 1 ELSE cfp_resolves[n]]
          /\ c_funcptrs' = r.ptrs
          /\ inst' = IF r.cache
                     THEN [inst EXCEPT ![p] = Store(@, attr,
                              [kind |-> r.kind, this |-> r.this, addr |-> r.addr,
                               sym |-> r.sym])]
                     ELSE inst
          /\ res' = [op |-> "getattr", who |-> {p}, attr |-> attr, kind |-> r.kind,
                     this |-> r.this, addr |-> r.addr, exc |-> r.exc, sym |-> r.sym,
                     resolved |-> r.resolved, native |-> None,
                     retry |-> Retry("getattr", {p}, r.sym)]
    /\ UNCHANGED <<resolvable, pkind, q_methods, q_properties, sname, sfunc,
                   st_resolves>>
    /\ UNCHANGED <<cbVars, thVars>>

\* _CMethodProxy.__call__ / _QMethodProxy.__call__ on the proxy stored for attr:
\* the native function gets this_ptr first; a meta-method goes to invokeMethod
MethodCall(p, attr) ==
    /\ pkind[p] # "none"
    /\ attr \in DOMAIN inst[p]
    /\ LET m == inst[p][attr]
       IN res' = [op |-> "call", who |-> {p}, attr |-> attr, kind |-> m.kind,
                  this |-> m.this, addr |-> m.addr, exc |-> "", sym |-> m.sym,
                  resolved |-> {},
                  native |-> IF m.kind = "CMethodProxy" THEN m.addr ELSE None,
                  retry |-> FALSE]
    /\ UNCHANGED <<resolvable, pkind, q_methods, q_properties, inst, c_funcptrs,
                   sname, sfunc, cfp_resolves, st_resolves>>
    /\ UNCHANGED <<cbVars, thVars>>

\* the names whose lookup can need a symbol, and one that no table holds
ResolveAttrs == CApiKeys \cup {"missing"}

\* attribute lookups and calls on _QObjectProxy objects
NextDispatch ==
    \/ \E p \in Proxies, m \in MetaObjects : NewQObjectProxy(p, m)
    \/ \E p \in Proxies, a \in AttrNames : GetAttr(p, a)
    \/ \E p \in Proxies, a \in AttrNames : MethodCall(p, a)

\* everything that reaches resolve_symbol
NextResolve ==
    \/ \E s \in Statics : StaticCall(s)
    \/ \E p \in Proxies : NewCObjectProxy(p)
    \/ \E p \in Proxies, m \in MetaObjects : NewQObjectProxy(p, m)
    \/ \E p \in Proxies, a \in ResolveAttrs : GetAttr(p, a)
    \/ \E p \in Proxies, a \in ResolveAttrs : MethodCall(p, a)

(* ---------------------------------------------------------------------- *)
(* Specifications: one per part, the other parts at rest                  *)
(* ---------------------------------------------------------------------- *)
RestStatics == \A s \in Statics : sname[s] = "sym_native"
RestProxy == resolvable = {} /\ RestStatics
Init1 == InitCallbacks /\ InitThread /\ ~readthedocs /\ InitProxy /\ RestProxy
SpecCallbacks == Init1 /\ [][NextCallbacks]_vars

Init2 == InitThread /\ InitCallbacks /\ InitProxy /\ RestProxy
SpecThread == Init2 /\ [][NextThread]_vars

Init3 == InitProxy /\ RestStatics /\ InitCallbacks /\ InitThread /\ ~readthedocs
SpecDispatch == Init3 /\ [][NextDispatch]_vars

Init4 == InitProxy /\ InitCallbacks /\ InitThread /\ ~readthedocs
SpecResolve == Init4 /\ [][NextResolve]_vars

(* Claims about the init callbacks *)

\* C1: for cls in {MainWindow, ViewFrame}, a function registered with
\* cls.addInitCallback when a widget of that class receives its first Show event
\* is called exactly once for that widget, with a cls wrapper of it, and no Show
\* event of the still-live widget calls a function again (so a function that was
\* not registered at the first Show is never called for it).
C1_CalledOncePerNewWidget ==
    \A a \in Addrs :
        (widget[a] \in Cls /\ shows[a] >= 1) =>
            \A f \in Fns :
                IF f \in regAtFirstShow[a]
                THEN calls[a][f] = 1 /\ wrapper[a] = widget[a]
                ELSE calls[a][f] = 0

\* C2: when the last addInitCallback/removeInitCallback call on a class was
\* removeInitCallback(fn), fn has not been called for any widget of that class
\* opened after that call.
C2_RemovedNeverCalled ==
    \A a \in Addrs :
        (widget[a] \in Cls /\ bornAfter[a]) =>
            \A f \in lastRemoved[widget[a]] : calls[a][f] = 0

(* Claims about on_main_thread *)

Returned(t) == pc[t] = "returned"

\* func ran to completion exactly once, on the main thread, before the call
\* returned, and a normal return value of func is what the call returned
RanSynchronouslyOnMain(t) ==
    /\ funcRet[t] # None
    /\ runs[t] = 1
    /\ ranOn[t] = {MainThread}
    /\ funcRet[t][1] => ret[t] = <<"return", funcRet[t][2]>>

\* C3 as stated: a call of a function decorated with on_main_thread, from any
\* thread, returns only after func has run to completion exactly once on the
\* main thread, and returns func's return value when func returns normally.
C3_AlwaysOnMainThread ==
    \A t \in Threads : Returned(t) => RanSynchronouslyOnMain(t)

\* C3 amended: the same, provided READTHEDOCS was not set when on_main_thread
\* was applied (with it set, on_main_thread returns func unwrapped).
C3_OnMainThreadUnlessReadTheDocs ==
    ~readthedocs => \A t \in Threads : Returned(t) => RanSynchronouslyOnMain(t)

\* a worker thread got func's value back through the wrapper while another
\* call had been made in the meantime
C3_Witness ==
    /\ ~readthedocs
    /\ \E t \in Workers : /\ Returned(t) /\ ret[t] # None /\ ret[t][1] = "return"
                           /\ \E u \in Threads \ {t} : funcRet[u] # None

(* Claims about the proxies *)

Who == CHOOSE w \in res.who : TRUE
LookedUpOnQ == res.op \in {"getattr", "call"} /\ pkind[Who] = "Q"

\* C4: on a _QObjectProxy a name that is a meta-method of the class yields a Qt
\* meta-method proxy on the wrapped object and touches no native symbol, also
\* when c_api lists the name too; any other name that c_api lists yields the
\* native function at the symbol's address bound to the object's pointer (with
\* AttributeError for a symbol the binary lacks); every other name yields the
\* wrapped Qt object's own attribute.
C4_DispatchOrder ==
    LookedUpOnQ =>
        IF res.attr \in MetaMethodNames
        THEN /\ res.kind = "QMethodProxy" /\ res.this = {PtrOf(Who)}
             /\ res.exc = "" /\ res.resolved = {} /\ res.native = None
        ELSE IF res.attr \in CApiKeys
        THEN IF CApi[res.attr] \in resolvable
             THEN /\ res.kind = "CMethodProxy" /\ res.this = {PtrOf(Who)}
                  /\ res.addr = AddrOf(CApi[res.attr]) /\ res.exc = ""
             ELSE res.exc = "AttributeError: symbol"
        ELSE IF res.attr \in QObjectAttrs
        THEN res.kind = "QtAttribute" /\ res.exc = ""
        ELSE res.exc = "AttributeError: q_object"

\* a name in both tables was called through the Qt meta-object on one proxy, and
\* c_api's own name was bound natively on the same proxy
C4_Witness ==
    /\ LookedUpOnQ /\ res.op = "call" /\ res.attr = "both"
    /\ res.kind = "QMethodProxy"
    /\ "native" \in DOMAIN inst[Who]
    /\ inst[Who]["native"].kind = "CMethodProxy"

\* nothing holds an address for the symbol the last operation needed
NothingCached ==
    IF res.op = "static"
    THEN Who \notin DOMAIN sfunc
    ELSE /\ res.attr \notin DOMAIN inst[Who]
         /\ \A p \in Proxies : FuncPtrsKey(p, res.sym) \notin DOMAIN c_funcptrs

\* C5: a symbol that resolves is looked up with resolve_symbol at most once by
\* each _CStaticMethodProxy, and at most once for all _CObjectProxy objects
\* together; an operation that needs a symbol the binary lacks raises
\* AttributeError, caches nothing and calls nothing native, and it did call
\* resolve_symbol, also when it repeats an operation that failed the same way;
\* and whatever is called natively is the address of a symbol that resolves.
C5_ResolveOnceAndNoCacheOnFailure ==
    /\ \A n \in resolvable : cfp_resolves[n] <= 1
    /\ \A s \in Statics : sname[s] \in resolvable => st_resolves[s] <= 1
    /\ (res.sym \in Syms \ resolvable) =>
            /\ res.exc = "AttributeError: symbol"
            /\ res.native = None
            /\ res.resolved = {res.sym}
            /\ NothingCached
    /\ res.native # None => (res.sym \in resolvable /\ res.native = AddrOf(res.sym))

\* two proxy objects hold the same native method while its symbol was resolved
\* once, a static proxy has called its resolved function, and a missing symbol
\* has just been looked up for the second time
C5_Witness ==
    /\ \E p, q \in Proxies :
          /\ p # q
          /\ "native" \in DOMAIN inst[p] /\ "native" \in DOMAIN inst[q]
          /\ inst[p]["native"].kind = "CMethodProxy"
          /\ inst[q]["native"].kind = "CMethodProxy"
    /\ cfp_resolves["sym_native"] = 1
    /\ \E s \in Statics : s \in DOMAIN sfunc /\ st_resolves[s] = 1
    /\ res.sym \in Syms \ resolvable
    /\ res.retry
====
